---- MODULE Spec2Model ----
(***************************************************************************)
(* HTF signal bot: the DhanHQ data fetcher (dhan_data_fetcher.py) and the  *)
(* Streamlit monitoring loop with its cooldown map and signal log          *)
(* (streamlit_app.py).                                                     *)
(*                                                                         *)
(* Time is the wall clock datetime.now(IST), in minutes since midnight.    *)
(* Each browser session owns one st.session_state (signals, sent_signals,  *)
(* monitoring); the Telegram chat and the provider are shared.             *)
(***************************************************************************)
EXTENDS Integers, Sequences, FiniteSets, TLC

VARIABLES
    now,             \* datetime.now(IST), minutes since midnight
    sessions,        \* the browser sessions running the script
    bot,             \* StreamlitSignalBot.bot is set (token and chat id configured)
    limits,          \* how far the behaviour is followed: the last clock
                     \* sample, the number of signals the detector creates
    monitoring,      \* st.session_state.monitoring, per session
    signals,         \* st.session_state.signals, per session, most recent first
    sent_signals,    \* st.session_state.sent_signals, per session: key -> time
    selected,        \* the instrument checkboxes, per session
    auto_telegram,   \* the "Auto-send to Telegram" checkbox, per session
    signal_cooldown, \* the "Signal Cooldown (minutes)" slider, per session
    pc,              \* where each session's script run stands
    todo,            \* instruments the running scan has still to visit
    cands,           \* signals of the current instrument still to process
    nextId,          \* number of the next signal the detector creates
    requests,        \* requests.post calls the provider has not answered yet
    channel,         \* signals the Telegram chat has received a message for
    attempted,       \* signals send_telegram_signal has tried to send
    suppressed,      \* signals a cooldown check has skipped
    cycle,           \* per session: what the current scan has visited and seen fail
    call             \* a direct call of the fetcher: operation, argument,
                     \* response of the provider, result

vars == <<now, sessions, bot, limits, monitoring, signals, sent_signals, selected,
          auto_telegram, signal_cooldown, pc, todo, cands, nextId, requests,
          channel, attempted, suppressed, cycle, call>>

\* Parts of the state, as the actions leave them alone.
envVars == <<sessions, bot, limits>>
storeVars == <<monitoring, signals, sent_signals>>
widgetVars == <<selected, auto_telegram, signal_cooldown>>
runVars == <<pc, todo, cands, cycle>>
histVars == <<channel, attempted, suppressed>>
appVars == <<now, envVars, storeVars, widgetVars, runVars, histVars, nextId>>

-----------------------------------------------------------------------------
(* Bounds of the model. *)

\* Clock steps a behaviour may take.
MaxTicks == 1
\* Signals the detector may create in one behaviour.
MaxCandidates == 2
\* Signals the detector may return from one call.
MaxSignals == 2
\* Rows a provider payload spells out (further rows are counted, see "more").
MaxRows == 2
\* Direct fetcher calls in one behaviour.
MaxCalls == 2
MaxLists == 2

-----------------------------------------------------------------------------
(* Program constants. *)

\* streamlit_app.py:243, market_open = 09:15
MarketOpenMin == 555
\* streamlit_app.py:244, market_close = 15:30
MarketCloseMin == 930
\* streamlit_app.py:209, st.slider("Signal Cooldown (minutes)", 5, 60, 15)
CooldownDefault == 15
CooldownMax == 60
\* streamlit_app.py:160, len(df) < 100
MinCandles == 100
\* dhan_data_fetcher.py:84, response.status_code != 200
HttpOk == 200
\* The number of signals the page shows, signals[:10].
DisplayLimit == 10

\* The clock is sampled every CooldownDefault minutes, starting one sample
\* before the market closes.
TimeStep == CooldownDefault
StartTime == MarketCloseMin - TimeStep
Horizon == StartTime + MaxTicks * TimeStep

-----------------------------------------------------------------------------
(* dhan_data_fetcher.py *)

\* DhanDataFetcher.instruments
instruments ==
    [i \in {"NIFTY", "BANKNIFTY", "SENSEX"} |->
        [exchange |-> "IDX_I",
         security_id |-> CASE i = "NIFTY" -> "13"
                           [] i = "BANKNIFTY" -> "25"
                           [] OTHER -> "51"]]

\* Instrument names a caller may pass: the configured ones and a foreign one.
InstrumentNames == DOMAIN instruments \cup {"FINNIFTY"}

\* required_cols
required_cols == {"open", "high", "low", "close", "volume"}

\* col.lower() on the column names the sample rows use.
lower(col) ==
    CASE col = "Open" -> "open"
      [] col = "Close" -> "close"
      [] OTHER -> col

\* Rows of a payload's "data" list: each a dict from column name to value.
FullRow == [timestamp |-> 60, open |-> 100, high |-> 102, low |-> 99,
            close |-> 101, volume |-> 10]
NoVolumeRow == [timestamp |-> 60, open |-> 100, high |-> 102, low |-> 99,
                close |-> 101]
NoOpenRow == [timestamp |-> 60, high |-> 102, low |-> 99, close |-> 101,
              volume |-> 10]
CapitalRow == [timestamp |-> 60, Open |-> 100, high |-> 102, low |-> 99,
               Close |-> 101, volume |-> 10]
LaterRow == [timestamp |-> 120, open |-> 101, high |-> 103, low |-> 100,
             close |-> 102, volume |-> 20]
SampleRows == {FullRow, NoVolumeRow, NoOpenRow, CapitalRow, LaterRow}

RowSeqs == UNION {[1..n -> SampleRows] : n \in 0..MaxRows}

\* A "data" list: the rows spelled out, followed by "more" complete rows
\* of later timestamps.
DataLists == [rows : RowSeqs, more : {0, MinCandles - 1, MinCandles}]

DataLen(d) == Len(d.rows) + d.more

\* A decoded JSON body: a dict with the keys in "keys" (dict.get of any
\* other key is None).
NoData == [rows |-> <<>>, more |-> 0]

Bodies ==
    {b \in [keys : SUBSET {"status", "errorCode", "data"},
            status : {"success", "failure"},
            errorCode : {"DH-905", ""},
            data : DataLists] :
        /\ "status" \notin b.keys => b.status = "success"
        /\ "errorCode" \notin b.keys => b.errorCode = ""
        /\ "data" \notin b.keys => b.data = NoData}

\* What requests.post can come back with: an exception, or a response with
\* a status code and a body that is JSON or not.
TransportError == [kind |-> "raise"]
NotJson == [keys |-> {}, status |-> "success", errorCode |-> "", data |-> NoData]
Responses ==
    {TransportError}
    \cup [kind : {"response"}, status_code : {HttpOk, 500}, json : {FALSE},
          body : {NotJson}]
    \cup [kind : {"response"}, status_code : {HttpOk}, json : {TRUE},
          body : Bodies]

\* A frame: its column names, its number of rows, its index (the
\* timestamps of the spelled rows, in row order) and the columns that hold
\* a NaN.
NoFrame == [columns |-> {}, len |-> 0, index |-> <<>>, nan |-> {}]

Failure(msg) == [success |-> FALSE, error |-> msg, data |-> NoFrame]

\* pd.DataFrame(data['data']), timestamp moved to the index, column names
\* lower-cased: the columns are the union of the rows' keys, a row that has
\* no value for a column gets NaN there, and the rows stay in the order and
\* number they came in.
DataFrame(d) ==
    LET keysets == {DOMAIN d.rows[k] : k \in 1..Len(d.rows)}
                   \cup (IF d.more > 0 THEN {DOMAIN FullRow} ELSE {})
        raw == UNION keysets \ {"timestamp"}
    IN  [columns |-> {lower(c) : c \in raw},
         len |-> DataLen(d),
         index |-> [k \in 1..Len(d.rows) |-> d.rows[k].timestamp],
         nan |-> {lower(c) : c \in {x \in raw : \E ks \in keysets : x \notin ks}}]

\* fetch_intraday_data from the response on (lines 84-135).
IntradayParse(resp) ==
    IF resp.kind = "raise" THEN Failure("Error fetching data")
    ELSE IF resp.status_code # HttpOk THEN Failure("API status")
    ELSE IF ~resp.json THEN Failure("Error fetching data")
    ELSE LET data == resp.body IN
         IF \/ ("status" \in data.keys /\ data.status = "failure")
            \/ ("errorCode" \in data.keys /\ data.errorCode # "")
         THEN Failure("API error")
         ELSE IF "data" \in data.keys /\ DataLen(data.data) > 0
         THEN LET df == DataFrame(data.data) IN
              IF ~(required_cols \subseteq df.columns)
              THEN Failure("Missing required columns in data")
              ELSE [success |-> TRUE, error |-> "", data |-> df]
         ELSE Failure("No data returned from API")

\* Everything fetch_intraday_data can return for a known instrument.
IntradayResults == {IntradayParse(resp) : resp \in Responses}

\* What fetch_and_analyze reads of a result: result.get('success') and
\* len(result['data']) (streamlit_app.py, lines 155-160).
Read(result) == [success |-> result.success, data |-> [len |-> result.data.len]]

ReadResults == {Read(r) : r \in IntradayResults}

\* fetch_quote from the response on (lines 168-186).
QuoteParse(resp) ==
    IF resp.kind = "raise" THEN Failure("Error fetching quote")
    ELSE IF resp.status_code = HttpOk
    THEN IF resp.json THEN [success |-> TRUE, error |-> "", data |-> NoFrame]
         ELSE Failure("Error fetching quote")
    ELSE Failure("API request failed")

Parse(op, resp) == IF op = "intraday" THEN IntradayParse(resp) ELSE QuoteParse(resp)

\* A guard that lets every instrument name through.
AnyInstrument(instrument) == instrument \in InstrumentNames

\* The guard both operations start with: instrument not in self.instruments.
KnownInstrument(instrument) == instrument \in DOMAIN instruments

\* The request a call makes: none for an unknown instrument.
RequestsOf(op, instrument) ==
    IF KnownInstrument(instrument)
    THEN {[op |-> op, instrument |-> instrument]}
    ELSE {}

\* No response has come back yet.
NoResponse == [kind |-> "none"]

NoCall == [op |-> "none", instrument |-> "NIFTY", stage |-> "idle",
           response |-> NoResponse, result |-> Failure(""), n |-> 0]

\* A caller invokes fetch_intraday_data or fetch_quote.
ClientCall(op, instrument) ==
    /\ call.stage # "waiting"
    /\ call.n < MaxCalls
    /\ requests' = requests \cup RequestsOf(op, instrument)
    /\ call' = IF KnownInstrument(instrument)
               THEN [op |-> op, instrument |-> instrument, stage |-> "waiting",
                     response |-> NoResponse, result |-> Failure(""),
                     n |-> call.n + 1]
               ELSE [op |-> op, instrument |-> instrument, stage |-> "done",
                     response |-> NoResponse,
                     result |-> Failure("Unknown instrument"),
                     n |-> call.n + 1]
    /\ UNCHANGED appVars

\* requests.post returns or raises; the call returns its result.
ClientReturn(resp) ==
    /\ call.stage = "waiting"
    /\ call' = [call EXCEPT !.stage = "done", !.response = resp,
                            !.result = Parse(call.op, resp)]
    /\ requests' = requests \ RequestsOf(call.op, call.instrument)
    /\ UNCHANGED appVars

-----------------------------------------------------------------------------
(* streamlit_app.py *)

EmptyMap == [k \in {} |-> 0]

\* The checkboxes in the order main() appends them to its list.
CheckboxOrder == <<"NIFTY", "BANKNIFTY", "SENSEX">>

\* Positions the cooldown slider is left at.
SliderValues == {CooldownDefault, CooldownMax}

SignalTypes == {"BUY", "SELL"}

\* key = f"{signal['instrument']}_{signal['signal_type']}"
Key(signal) == signal.instrument \o "_" \o signal.signal_type

\* is_market_open = market_open <= current_time <= market_close
is_market_open(current_time) ==
    MarketOpenMin <= current_time /\ current_time <= MarketCloseMin

\* A cooldown test that counts the end of the window as inside it.
ShouldSuppressInclusive(sent, key, t, window) ==
    key \in DOMAIN sent /\ (t - sent[key]) <= window

\* A check that takes no account of the window.
ShouldSuppressNoWindow(sent, key, t, window) ==
    key \in DOMAIN sent /\ (t - sent[key]) < 0

\* Lines 290-295: the candidate is skipped (continue).
ShouldSuppress(sent, key, t, window) ==
    key \in DOMAIN sent /\ (t - sent[key]) < window

\* st.session_state.sent_signals[key] = datetime.now(IST)
RecordDispatch(sent, key, t) ==
    [k \in DOMAIN sent \cup {key} |-> IF k = key THEN t ELSE sent[k]]

\* SignalDetector.detect_signals: a list of signals for the instrument it
\* was given, or an exception.
DetectorLists == UNION {[1..n -> SignalTypes] : n \in 0..MaxSignals}

MakeSignals(types, instrument, first) ==
    [k \in 1..Len(types) |->
        [instrument |-> instrument, signal_type |-> types[k], id |-> first + k - 1]]

\* What the scan in progress has done so far: the instruments it has visited,
\* whether an analysis came back empty-handed (failed fetch, short series,
\* exception), whether a send raised.
NewCycle == [scanned |-> {}, failed |-> FALSE, send_failed |-> FALSE]

\* Points of a run at which Streamlit hands control back (an st.* call) or
\* no run is in progress: a pending user event takes effect there.
YieldPoints == {"idle", "analysis_error", "send_error", "complete"}

\* A user event reaches the script.
UserEvent(s) == pc[s] \in YieldPoints

\* A run that goes into the scan whatever the monitoring flag says.
StartRunUnflagged(s, mon, ticked) ==
    LET list == SelectSeq(CheckboxOrder, LAMBDA i : i \in ticked) IN
    /\ cands' = [cands EXCEPT ![s] = <<>>]
    /\ cycle' = [cycle EXCEPT ![s] = NewCycle]
    /\ IF is_market_open(now)
       THEN /\ todo' = [todo EXCEPT ![s] = list]
            /\ pc' = [pc EXCEPT ![s] = IF list = <<>> THEN "complete" ELSE "scan"]
       ELSE /\ todo' = [todo EXCEPT ![s] = <<>>]
            /\ pc' = [pc EXCEPT ![s] = "idle"]

\* A run of main() starts, dropping the run in progress, and goes up to the
\* monitoring branch (lines 240-281) with the monitoring flag and the
\* checkboxes as given: into the scan when monitoring is on and the market
\* is open, to the end of the script otherwise.
StartRun(s, mon, ticked) ==
    LET list == SelectSeq(CheckboxOrder, LAMBDA i : i \in ticked) IN
    /\ cands' = [cands EXCEPT ![s] = <<>>]
    /\ cycle' = [cycle EXCEPT ![s] = NewCycle]
    /\ IF mon /\ is_market_open(now)
       THEN /\ todo' = [todo EXCEPT ![s] = list]
            /\ pc' = [pc EXCEPT ![s] = IF list = <<>> THEN "complete" ELSE "scan"]
       ELSE /\ todo' = [todo EXCEPT ![s] = <<>>]
            /\ pc' = [pc EXCEPT ![s] = "idle"]

\* "Start Monitoring" (lines 226-228), and the run st.rerun() starts.
StartMonitoring(s) ==
    /\ UserEvent(s)
    /\ monitoring' = [monitoring EXCEPT ![s] = TRUE]
    /\ StartRun(s, TRUE, selected[s])
    /\ UNCHANGED <<now, envVars, signals, sent_signals, widgetVars, histVars,
                   nextId, requests, call>>

\* "Stop" (lines 230-232), and the run st.rerun() starts.
StopMonitoring(s) ==
    /\ UserEvent(s)
    /\ monitoring' = [monitoring EXCEPT ![s] = FALSE]
    /\ StartRun(s, FALSE, selected[s])
    /\ UNCHANGED <<now, envVars, signals, sent_signals, widgetVars, histVars,
                   nextId, requests, call>>

\* A "Clear Signals" that empties the log and leaves the cooldown map.
ClearLogOnly(s) ==
    /\ UserEvent(s)
    /\ signals' = [signals EXCEPT ![s] = <<>>]
    /\ StartRun(s, monitoring[s], selected[s])
    /\ UNCHANGED <<now, envVars, monitoring, sent_signals, widgetVars,
                   histVars, nextId, requests, call>>

\* A "Clear Signals" that empties the cooldown map and leaves the log.
ClearMapOnly(s) ==
    /\ UserEvent(s)
    /\ sent_signals' = [sent_signals EXCEPT ![s] = EmptyMap]
    /\ StartRun(s, monitoring[s], selected[s])
    /\ UNCHANGED <<now, envVars, monitoring, signals, widgetVars,
                   histVars, nextId, requests, call>>

\* "Clear Signals" (lines 234-237), and the run st.rerun() starts.
ClearSignals(s) ==
    /\ UserEvent(s)
    /\ signals' = [signals EXCEPT ![s] = <<>>]
    /\ sent_signals' = [sent_signals EXCEPT ![s] = EmptyMap]
    /\ StartRun(s, monitoring[s], selected[s])
    /\ UNCHANGED <<now, envVars, monitoring, widgetVars, histVars, nextId,
                   requests, call>>

\* fetch_and_analyze calls fetch_intraday_data, which posts the request
\* (lines 145-153, 48-82).
BeginFetch(s) ==
    /\ pc[s] = "scan"
    /\ LET instrument == Head(todo[s]) IN
        /\ requests' = requests \cup RequestsOf("intraday", instrument)
        /\ cycle' = [cycle EXCEPT ![s].scanned = @ \cup {instrument}]
        /\ pc' = [pc EXCEPT ![s] = "fetch_wait"]
    /\ UNCHANGED <<now, envVars, storeVars, widgetVars, histVars, todo, cands, nextId, call>>

\* A fetch_and_analyze whose outcome ends the run instead of reaching the
\* loop.
Propagated(s, list) ==
    /\ cands' = [cands EXCEPT ![s] = <<>>]
    /\ pc' = [pc EXCEPT ![s] = "idle"]

\* signals = bot.fetch_and_analyze(instrument) (line 284): the call has
\* returned a list, and the loop over it begins.
Returned(s, list) ==
    /\ cands' = [cands EXCEPT ![s] = list]
    /\ pc' = [pc EXCEPT ![s] = "signals"]

\* A fetch_and_analyze that hands a series of fewer than MinCandles candles
\* to the detector all the same.
ShortSeriesDetected(s, instrument) ==
    \E types \in DetectorLists \ {<<>>} :
        /\ nextId + Len(types) - 1 <= limits.candidates
        /\ cands' = [cands EXCEPT ![s] = MakeSignals(types, instrument, nextId)]
        /\ nextId' = nextId + Len(types)
        /\ pc' = [pc EXCEPT ![s] = "short"]

\* len(df) < 100 (lines 160-161): fetch_and_analyze is at its "return []",
\* the detector has not been called.
ShortSeries(s, instrument) ==
    /\ cands' = [cands EXCEPT ![s] = <<>>]
    /\ pc' = [pc EXCEPT ![s] = "short"]
    /\ UNCHANGED nextId

\* requests.post returns or raises, fetch_intraday_data returns, and
\* fetch_and_analyze goes on from its result (lines 155-170): no signals
\* for a failed fetch or a short series, otherwise the detector's list; an
\* exception is reported with st.error and yields no signals.
FetchAndAnalyze(s, result) ==
    /\ pc[s] = "fetch_wait"
    /\ LET instrument == Head(todo[s])
       IN  IF ~result.success
           THEN /\ Returned(s, <<>>)
                /\ cycle' = [cycle EXCEPT ![s].failed = TRUE]
                /\ UNCHANGED nextId
           ELSE IF result.data.len < MinCandles
           THEN /\ ShortSeries(s, instrument)
                /\ cycle' = [cycle EXCEPT ![s].failed = TRUE]
           ELSE \/ /\ pc' = [pc EXCEPT ![s] = "analysis_error"]
                   /\ cycle' = [cycle EXCEPT ![s].failed = TRUE]
                   /\ UNCHANGED <<cands, nextId>>
                \/ \E types \in DetectorLists :
                      /\ nextId + Len(types) - 1 <= limits.candidates
                      /\ Returned(s, MakeSignals(types, instrument, nextId))
                      /\ nextId' = nextId + Len(types)
                      /\ UNCHANGED cycle
    /\ requests' = requests \ RequestsOf("intraday", Head(todo[s]))
    /\ UNCHANGED <<now, envVars, storeVars, widgetVars, histVars, todo, call>>

\* fetch_and_analyze returns from line 161 to the loop of line 283.
ShortReturn(s) ==
    /\ pc[s] = "short"
    /\ Returned(s, cands[s])
    /\ UNCHANGED <<now, envVars, storeVars, widgetVars, histVars, todo,
                   cycle, nextId, requests, call>>

\* fetch_and_analyze returns [] after st.error (lines 168-170).
AnalysisErrorReturn(s) ==
    /\ pc[s] = "analysis_error"
    /\ Returned(s, <<>>)
    /\ UNCHANGED <<now, envVars, storeVars, widgetVars, histVars, todo,
                   cycle, nextId, requests, call>>

\* A cooldown check that restarts the window of a signal it skips.
CheckCooldownRefreshing(s) ==
    /\ pc[s] = "signals"
    /\ cands[s] # <<>>
    /\ LET signal == Head(cands[s])
           key == Key(signal)
       IN  IF ShouldSuppress(sent_signals[s], key, now, signal_cooldown[s])
           THEN /\ cands' = [cands EXCEPT ![s] = Tail(@)]
                /\ suppressed' = suppressed \cup {signal.id}
                /\ sent_signals' = [sent_signals EXCEPT ![s] =
                                       RecordDispatch(@, key, now)]
                /\ UNCHANGED pc
           ELSE /\ pc' = [pc EXCEPT ![s] = "add"]
                /\ UNCHANGED <<cands, suppressed, sent_signals>>
    /\ UNCHANGED <<now, envVars, monitoring, signals, widgetVars, channel,
                   attempted, todo, cycle, nextId, requests, call>>

\* Lines 286-295: the cooldown check of the next signal of the list.
CheckCooldown(s) ==
    /\ pc[s] = "signals"
    /\ cands[s] # <<>>
    /\ LET signal == Head(cands[s])
           key == Key(signal)
           suppress == ShouldSuppress(sent_signals[s], key, now, signal_cooldown[s])
       IN  IF suppress
           THEN /\ cands' = [cands EXCEPT ![s] = Tail(@)]
                /\ suppressed' = suppressed \cup {signal.id}
                /\ UNCHANGED pc
           ELSE /\ pc' = [pc EXCEPT ![s] = "add"]
                /\ UNCHANGED <<cands, suppressed>>
    /\ UNCHANGED <<now, envVars, storeVars, widgetVars, channel, attempted,
                   todo, cycle, nextId, requests, call>>

\* An accepted signal that reaches the cooldown map but not the log.
AddSignalUnlogged(s) ==
    /\ pc[s] = "add"
    /\ sent_signals' = [sent_signals EXCEPT ![s] =
                           RecordDispatch(@, Key(Head(cands[s])), now)]
    /\ pc' = [pc EXCEPT ![s] = "send"]
    /\ UNCHANGED <<now, envVars, monitoring, signals, widgetVars, histVars,
                   todo, cands, cycle, nextId, requests, call>>

\* Lines 297-299: the signal goes into the log and the cooldown map.
AddSignal(s) ==
    /\ pc[s] = "add"
    /\ LET signal == Head(cands[s]) IN
        /\ signals' = [signals EXCEPT ![s] = <<signal>> \o @]
        /\ sent_signals' = [sent_signals EXCEPT ![s] =
                               RecordDispatch(@, Key(signal), now)]
    /\ pc' = [pc EXCEPT ![s] = "send"]
    /\ UNCHANGED <<now, envVars, monitoring, widgetVars, histVars, todo, cands,
                   cycle, nextId, requests, call>>

\* Lines 301-303 with send_telegram_signal (lines 92-139): nothing is sent
\* unless auto-send is on and the bot is configured; bot.send_message
\* delivers the message or raises, which st.error reports.
SendTelegram(s) ==
    /\ pc[s] = "send"
    /\ LET signal == Head(cands[s]) IN
        IF auto_telegram[s] /\ bot
        THEN /\ attempted' = attempted \cup {signal.id}
             /\ \/ /\ channel' = channel \cup {signal}
                   /\ pc' = [pc EXCEPT ![s] = "signals"]
                   /\ cands' = [cands EXCEPT ![s] = Tail(@)]
                   /\ UNCHANGED cycle
                \/ /\ pc' = [pc EXCEPT ![s] = "send_error"]
                   /\ cycle' = [cycle EXCEPT ![s].send_failed = TRUE]
                   /\ UNCHANGED <<channel, cands>>
        ELSE /\ pc' = [pc EXCEPT ![s] = "signals"]
             /\ cands' = [cands EXCEPT ![s] = Tail(@)]
             /\ UNCHANGED <<channel, attempted, cycle>>
    /\ UNCHANGED <<now, envVars, storeVars, widgetVars, suppressed, todo,
                   nextId, requests, call>>

\* A failed send that ends the run instead of returning False.
SendErrorRaised(s) ==
    /\ pc[s] = "send_error"
    /\ pc' = [pc EXCEPT ![s] = "idle"]
    /\ cands' = [cands EXCEPT ![s] = <<>>]
    /\ todo' = [todo EXCEPT ![s] = <<>>]
    /\ UNCHANGED <<now, envVars, storeVars, widgetVars, histVars, cycle,
                   nextId, requests, call>>

\* send_telegram_signal returns False after st.error (lines 137-139).
SendErrorReturn(s) ==
    /\ pc[s] = "send_error"
    /\ pc' = [pc EXCEPT ![s] = "signals"]
    /\ cands' = [cands EXCEPT ![s] = Tail(@)]
    /\ UNCHANGED <<now, envVars, storeVars, widgetVars, histVars, todo,
                   cycle, nextId, requests, call>>

\* The signal loop is over: time.sleep(1) and on to the next instrument
\* (line 305), or out of the instrument loop (line 307).
NextInstrument(s) ==
    /\ pc[s] = "signals"
    /\ cands[s] = <<>>
    /\ todo' = [todo EXCEPT ![s] = Tail(@)]
    /\ pc' = [pc EXCEPT ![s] = IF Tail(todo[s]) = <<>> THEN "complete" ELSE "scan"]
    /\ UNCHANGED <<now, envVars, storeVars, widgetVars, histVars, cands,
                   cycle, nextId, requests, call>>

\* Lines 307-311: time.sleep(scan_interval), then st.rerun() and the run it
\* starts.
ScheduleNext(s) ==
    /\ pc[s] = "complete"
    /\ StartRun(s, monitoring[s], selected[s])
    /\ UNCHANGED <<now, envVars, storeVars, widgetVars, histVars, nextId,
                   requests, call>>

\* The wall clock moves on.
Tick ==
    /\ now + TimeStep <= limits.horizon
    /\ now' = now + TimeStep
    /\ UNCHANGED <<envVars, storeVars, widgetVars, runVars, histVars, nextId,
                   requests, call>>

\* StreamlitSignalBot.__init__ in each session (lines 71-90) and the sidebar
\* as the user has set it (lines 191-209); the first run of the script, with
\* monitoring off, has ended.
InitAt(ss, ticked, t, lim) ==
    /\ now = t
    /\ limits = lim
    /\ sessions = ss
    /\ bot \in BOOLEAN
    /\ monitoring = [s \in ss |-> FALSE]
    /\ signals = [s \in ss |-> <<>>]
    /\ sent_signals = [s \in ss |-> EmptyMap]
    /\ selected = [s \in ss |-> ticked]
    /\ auto_telegram \in [ss -> BOOLEAN]
    /\ signal_cooldown \in [ss -> SliderValues]
    /\ pc = [s \in ss |-> "idle"]
    /\ todo = [s \in ss |-> <<>>]
    /\ cands = [s \in ss |-> <<>>]
    /\ nextId = 1
    /\ requests = {}
    /\ channel = {}
    /\ attempted = {}
    /\ suppressed = {}
    /\ cycle = [s \in ss |-> NewCycle]
    /\ call = NoCall

\* The behaviour starts one clock sample before the market closes and is
\* followed for MaxTicks samples and MaxCandidates signals.
InitSessions(ss, ticked) ==
    InitAt(ss, ticked, StartTime,
           [horizon |-> Horizon, candidates |-> MaxCandidates])

\* One browser session, every instrument ticked.
MainSessions == {1}

Init == InitSessions(MainSessions, DOMAIN instruments)

\* The steps the script of a session takes by itself.
ScriptStep(s) ==
    \/ BeginFetch(s)
    \/ ShortReturn(s)
    \/ AnalysisErrorReturn(s)
    \/ CheckCooldown(s)
    \/ AddSignal(s)
    \/ SendTelegram(s)
    \/ SendErrorReturn(s)
    \/ NextInstrument(s)
    \/ ScheduleNext(s)

Next ==
    \/ \E s \in sessions : StartMonitoring(s)
    \/ \E s \in sessions : StopMonitoring(s)
    \/ \E s \in sessions : ClearSignals(s)
    \/ \E s \in sessions : BeginFetch(s)
    \/ \E s \in sessions : \E result \in ReadResults :
          FetchAndAnalyze(s, result)
    \/ \E s \in sessions : ShortReturn(s)
    \/ \E s \in sessions : AnalysisErrorReturn(s)
    \/ \E s \in sessions : CheckCooldown(s)
    \/ \E s \in sessions : AddSignal(s)
    \/ \E s \in sessions : SendTelegram(s)
    \/ \E s \in sessions : SendErrorReturn(s)
    \/ \E s \in sessions : NextInstrument(s)
    \/ \E s \in sessions : ScheduleNext(s)
    \/ Tick

Spec == Init /\ [][Next]_vars

\* The script of a session runs on by itself; nothing makes the user or the
\* clock act, and nothing in the program makes requests.post come back.
SpecFair == Spec /\ \A s \in MainSessions : WF_vars(ScriptStep(s))

\* Two browser sessions of the same deployment (one bot token, one chat),
\* each watching NIFTY with auto-send on and the default cooldown.
TwoSessions == {1, 2}

InitTwo ==
    /\ InitSessions(TwoSessions, {"NIFTY"})
    /\ bot
    /\ \A s \in TwoSessions :
          auto_telegram[s] /\ signal_cooldown[s] = CooldownDefault

SpecTwo == InitTwo /\ [][Next]_vars

\* One session around the edges of the market hours: from one clock sample
\* before the market opens, or from the sample at which it closes.
EdgeTimes == {MarketOpenMin - TimeStep, MarketCloseMin}

InitHours ==
    \E t \in EdgeTimes :
        InitAt(MainSessions, DOMAIN instruments, t,
               [horizon |-> t + MaxTicks * TimeStep,
                candidates |-> MaxCandidates])

SpecHours == InitHours /\ [][Next]_vars

\* The same, with the script of the session running on whenever it can.
SpecHoursFair == SpecHours /\ \A s \in MainSessions : WF_vars(ScriptStep(s))

\* One session on a busy day: monitoring goes on at the open, every series
\* is long enough and the detector finds a BUY and a SELL in each; no bot is
\* configured, and the behaviour is followed until the log has room for no
\* more than what the page shows.
InitLog ==
    /\ InitAt(MainSessions, DOMAIN instruments, MarketOpenMin,
              [horizon |-> MarketOpenMin + MaxTicks * TimeStep,
               candidates |-> DisplayLimit + 2])
    /\ ~bot

BusyDetector(s) ==
    /\ Len(cands'[s]) = 2
    /\ cands'[s][1].signal_type = "BUY"
    /\ cands'[s][2].signal_type = "SELL"

NextLog ==
    \/ \E s \in sessions : StartMonitoring(s)
    \/ \E s \in sessions : BeginFetch(s)
    \/ \E s \in sessions : \E result \in ReadResults :
          FetchAndAnalyze(s, result) /\ BusyDetector(s)
    \/ \E s \in sessions : CheckCooldown(s)
    \/ \E s \in sessions : AddSignal(s)
    \/ \E s \in sessions : SendTelegram(s)
    \/ \E s \in sessions : NextInstrument(s)
    \/ \E s \in sessions : ScheduleNext(s)
    \/ Tick

SpecLog == InitLog /\ [][NextLog]_vars

\* One session watching NIFTY, with a detector whose lists are empty or
\* hold MaxSignals signals, and no bot: the signals numbered (n - 1) * MaxSignals + 1
\* to n * MaxSignals are those of the n-th list that is not empty. The
\* behaviour is followed for MaxLists such lists.
InitList ==
    /\ InitAt(MainSessions, {"NIFTY"}, StartTime,
              [horizon |-> Horizon, candidates |-> MaxLists * MaxSignals])
    /\ ~bot

WholeList(s) == pc'[s] = "signals" => Len(cands'[s]) \in {0, MaxSignals}

NextList ==
    \/ \E s \in sessions : StartMonitoring(s)
    \/ \E s \in sessions : StopMonitoring(s)
    \/ \E s \in sessions : ClearSignals(s)
    \/ \E s \in sessions : BeginFetch(s)
    \/ \E s \in sessions : \E result \in ReadResults :
          FetchAndAnalyze(s, result) /\ WholeList(s)
    \/ \E s \in sessions : ShortReturn(s)
    \/ \E s \in sessions : AnalysisErrorReturn(s)
    \/ \E s \in sessions : CheckCooldown(s)
    \/ \E s \in sessions : AddSignal(s)
    \/ \E s \in sessions : SendTelegram(s)
    \/ \E s \in sessions : NextInstrument(s)
    \/ \E s \in sessions : ScheduleNext(s)
    \/ Tick

SpecList == InitList /\ [][NextList]_vars

-----------------------------------------------------------------------------
(* The fetcher called directly. *)

InitClient == InitSessions({}, {})

NextClient ==
    \/ \E op \in {"intraday", "quote"}, instrument \in InstrumentNames :
          ClientCall(op, instrument)
    \/ \E resp \in Responses : ClientReturn(resp)

SpecClient == InitClient /\ [][NextClient]_vars

-----------------------------------------------------------------------------
(* Properties of the cooldown check (streamlit_app.py, lines 286-303). *)

\* The check skips the signal at the head of the list (continue).
SuppressedStep(s) ==
    /\ pc[s] = "signals" /\ cands[s] # <<>>
    /\ pc'[s] = "signals" /\ cands'[s] = Tail(cands[s])

\* The check lets the signal at the head of the list through.
AcceptedStep(s) == pc[s] = "signals" /\ pc'[s] = "add"

\* The map of the session has an entry for the signal's key, and the time
\* since it is strictly less than the window.
InCooldown(s, signal) ==
    LET key == Key(signal) IN
    /\ key \in DOMAIN sent_signals[s]
    /\ now - sent_signals[s][key] < signal_cooldown[s]

\* C1: a candidate signal is suppressed if and only if the cooldown map has
\* an entry for its key and the time elapsed since that entry is strictly
\* less than the window; at elapsed = window, and with no entry, it is let
\* through.
C1_SuppressedIffInCooldown ==
    [][\A s \in DOMAIN pc :
          /\ SuppressedStep(s) => InCooldown(s, Head(cands[s]))
          /\ AcceptedStep(s) => ~InCooldown(s, Head(cands[s]))]_vars

\* A signal is let through exactly at the end of its key's window.
C1_AcceptedAtBoundary ==
    \E s \in DOMAIN pc :
        /\ pc[s] = "add"
        /\ Key(Head(cands[s])) \in DOMAIN sent_signals[s]
        /\ now - sent_signals[s][Key(Head(cands[s]))] = signal_cooldown[s]

\* C3: a suppressed candidate leaves the cooldown map as it was: no
\* timestamp is refreshed and no entry is added.
C3_SuppressedLeavesMap ==
    [][\A s \in DOMAIN pc :
          SuppressedStep(s) => sent_signals'[s] = sent_signals[s]]_vars

\* A signal has been suppressed some time after its key's entry was written,
\* and the entry still carries the earlier time.
C3_SuppressedLater ==
    \E s \in DOMAIN pc :
        /\ suppressed # {}
        /\ pc[s] = "signals"
        /\ \E key \in DOMAIN sent_signals[s] :
              /\ sent_signals[s][key] < now
              /\ ShouldSuppress(sent_signals[s], key, now, signal_cooldown[s])

\* The identifiers of the signals in a session's log.
Logged(s) == {signals[s][k].id : k \in 1..Len(signals[s])}

\* C4: a suppressed candidate is neither inserted into the log nor handed
\* to the notification channel, and every candidate that is not suppressed
\* is inserted into the log (at its head) before anything is sent.
C4_SuppressedNeverLoggedNorSent ==
    \A s \in DOMAIN pc :
        /\ Logged(s) \cap suppressed = {}
        /\ attempted \cap suppressed = {}
        /\ \A signal \in channel : signal.id \notin suppressed
        /\ pc[s] \in {"send", "send_error"} =>
              /\ signals[s] # <<>>
              /\ Head(signals[s]) = Head(cands[s])

\* One signal is in the log and has been handed to the channel, and another
\* has been suppressed.
C4_SuppressedAndAccepted ==
    \E s \in DOMAIN pc :
        /\ suppressed # {}
        /\ Logged(s) \cap attempted # {}

-----------------------------------------------------------------------------
(* Properties of the dispatch (streamlit_app.py, lines 297-303). *)

\* No dispatch of the session is in progress.
Quiet(s) == pc[s] \in {"idle", "complete"}

\* C2: a cooldown entry is written only when a signal of its key has
\* actually been handed to the notification channel: once the session is
\* between dispatches, every key of its cooldown map has a signal in the
\* channel.
C2_EntryOnlyWhenSent ==
    \A s \in DOMAIN pc :
        Quiet(s) =>
            \A key \in DOMAIN sent_signals[s] :
                \E signal \in channel : Key(signal) = key

\* The latest signal of the key in the session's log, the one its cooldown
\* entry was written for, has reached the channel.
Dispatched(s, key) ==
    \E k \in 1..Len(signals[s]) :
        /\ Key(signals[s][k]) = key
        /\ signals[s][k] \in channel
        /\ \A j \in 1..(k - 1) : Key(signals[s][j]) # key

\* C5: two scan cycles running at the same time (two sessions sending to
\* the same chat) never both dispatch the same key within one window.
C5_NoDoubleDispatch ==
    \A s \in DOMAIN pc : \A t \in DOMAIN pc \ {s} :
        \A key \in DOMAIN sent_signals[s] \cap DOMAIN sent_signals[t] :
            Dispatched(s, key) /\ Dispatched(t, key) =>
                \/ sent_signals[s][key] - sent_signals[t][key] >= signal_cooldown[s]
                \/ sent_signals[t][key] - sent_signals[s][key] >= signal_cooldown[t]

\* A user event ends the run of the session while it reports a failed send
\* (st.error, line 138).
CancelledStep(s) ==
    pc[s] = "send_error" /\ pc'[s] \notin {"send_error", "signals"}

\* Of the log insertion, the cooldown record and the send of a signal,
\* either all have taken effect or none has.
AllOrNone(log, sent, chat, signal) ==
    LET inLog == \E k \in 1..Len(log) : log[k] = signal
        inMap == Key(signal) \in DOMAIN sent
        inChat == signal \in chat
    IN  (inLog /\ inMap /\ inChat) \/ (~inLog /\ ~inMap /\ ~inChat)

\* C6: cancelling a scan cycle leaves, for the signal it was dispatching,
\* either all of log insertion, cooldown record and send, or none of them.
C6_CancelAllOrNone ==
    [][\A s \in DOMAIN pc :
          CancelledStep(s) =>
              AllOrNone(signals'[s], sent_signals'[s], channel',
                        Head(cands[s]))]_vars

\* C8: a send that fails does not block the remaining dispatches: the scan
\* goes on after it, and with auto-send on and the bot configured
\* send_telegram_signal has tried to send every signal in the log, the one
\* being dispatched excepted.
C8_FailedSendDoesNotBlock ==
    \A s \in DOMAIN pc :
        /\ cycle[s].send_failed => pc[s] # "idle"
        /\ auto_telegram[s] /\ bot =>
              \A k \in 1..Len(signals[s]) :
                  \/ signals[s][k].id \in attempted
                  \/ pc[s] = "send" /\ signals[s][k] = Head(cands[s])

\* A send has failed in the scan in progress, and a later signal of the same
\* scan has reached the channel.
C8_DeliveredAfterFailure ==
    \E s \in DOMAIN pc :
        /\ cycle[s].send_failed
        /\ signals[s] # <<>>
        /\ Head(signals[s]) \in channel
        /\ \E k \in 2..Len(signals[s]) :
              /\ signals[s][k].id \in attempted
              /\ signals[s][k] \notin channel
              /\ signals[s][k].id < Head(signals[s]).id

-----------------------------------------------------------------------------
(* Properties of the scan (streamlit_app.py, lines 141-170 and 283-311). *)

\* C7: a failure analyzing one instrument (failed fetch, too little data,
\* exception in detection) does not abort the scan: the run stays in the
\* loop, the scan ends with every ticked instrument visited, and the next
\* cycle can then be scheduled.
C7_FailureDoesNotAbortScan ==
    \A s \in DOMAIN pc :
        /\ cycle[s].failed => pc[s] # "idle"
        /\ pc[s] = "complete" =>
              /\ cycle[s].scanned = selected[s]
              /\ todo[s] = <<>>
              /\ ENABLED ScheduleNext(s)

\* A scan has ended with every instrument visited although an analysis
\* failed in it.
C7_CompleteAfterFailure ==
    \E s \in DOMAIN pc :
        /\ pc[s] = "complete"
        /\ cycle[s].failed
        /\ cycle[s].scanned = DOMAIN instruments

\* C9: a fetch that has posted its request eventually returns.
C9_FetchReturns ==
    \A s \in MainSessions : (pc[s] = "fetch_wait") ~> (pc[s] # "fetch_wait")

-----------------------------------------------------------------------------
(* Properties of the fetcher (dhan_data_fetcher.py). *)

\* C10: for an instrument that is not configured, fetch_intraday_data and
\* fetch_quote return the unknown-instrument failure and post no request.
C10_UnknownInstrumentNoRequest ==
    /\ \A r \in requests : r.instrument \in DOMAIN instruments
    /\ call.stage # "idle" /\ call.instrument \notin DOMAIN instruments =>
          /\ call.stage = "done"
          /\ call.result = Failure("Unknown instrument")
          /\ requests = {}

\* fetch_quote has returned for an instrument that is not configured.
C10_UnknownQuoteReturned ==
    /\ call.stage = "done"
    /\ call.op = "quote"
    /\ call.instrument \notin DOMAIN instruments

\* The decoded body of a response carries a provider-level error marker:
\* a failure status or an error code.
ErrorMarked(resp) ==
    /\ resp.kind = "response"
    /\ resp.json
    /\ \/ "status" \in resp.body.keys /\ resp.body.status = "failure"
       \/ "errorCode" \in resp.body.keys /\ resp.body.errorCode # ""

\* C11: for fetch_intraday_data and fetch_quote, a response that is not
\* 200, and a 200 response whose body carries an error marker, yield a
\* failure result, never a success result.
C11_ErrorMarkerIsFailure ==
    /\ call.stage = "done"
    /\ call.response.kind = "response"
    /\ call.response.status_code # HttpOk \/ ErrorMarked(call.response)
    => ~call.result.success

-----------------------------------------------------------------------------
(* Properties of the market hours (streamlit_app.py, lines 240-245, 273-311). *)

\* The script of the session posts the fetch for the next instrument.
FetchIssued(s) == pc[s] = "scan" /\ pc'[s] = "fetch_wait"

\* C12: no provider fetch is issued at a time outside the active window
\* (09:15 to 15:30), the fetches for the later instruments of a cycle that
\* started inside the window included.
C12_NoFetchOutsideHours ==
    [][\A s \in DOMAIN pc : FetchIssued(s) => is_market_open(now)]_vars

\* C18: when monitoring was enabled while the market was closed, monitoring
\* resumes by itself: once the time is inside the active window, the script
\* eventually runs a scan cycle without any further user action.
C18_ResumesAtOpen ==
    \A s \in MainSessions :
        (monitoring[s] /\ is_market_open(now) /\ pc[s] = "idle")
            ~> (pc[s] # "idle" \/ ~monitoring[s])

-----------------------------------------------------------------------------
(* Properties of a short series (streamlit_app.py, lines 155-166).         *)

\* C13: when the fetched series has fewer than 100 candles the detector is
\* not invoked (no signal is created), no signal is produced for the
\* instrument, and the cycle goes on to the loop and the next instrument
\* without an error being reported.
C13_ShortSeriesSkipped ==
    [][\A s \in DOMAIN pc :
          /\ pc[s] = "fetch_wait" /\ pc'[s] = "short"
                => cands'[s] = <<>> /\ nextId' = nextId
          /\ pc[s] = "short" /\ pc'[s] # "short"
                => /\ pc'[s] = "signals"
                   /\ cands'[s] = <<>>
                   /\ todo'[s] = todo[s]
                   /\ signals'[s] = signals[s]]_vars

\* A short series has come back for an instrument that is not the last of
\* the cycle.
C13_ShortSeriesMidCycle ==
    \E s \in DOMAIN pc : pc[s] = "short" /\ Len(todo[s]) > 1

-----------------------------------------------------------------------------
(* Properties of the signal log (streamlit_app.py, lines 297-299, 316-320). *)

\* C14: the in-memory signal log is bounded: after any sequence of scan
\* cycles it holds no more signals than a fixed bound, the number of signals
\* the page shows.
C14_LogBounded ==
    \A s \in DOMAIN signals : Len(signals[s]) <= DisplayLimit

-----------------------------------------------------------------------------
(* Properties of the series fetch_intraday_data returns                    *)
(* (dhan_data_fetcher.py, lines 99-129).                                   *)

\* fetch_intraday_data has returned a series.
SeriesReturned ==
    /\ call.stage = "done"
    /\ call.op = "intraday"
    /\ call.result.success

\* C15: a successfully returned series has strictly increasing timestamps
\* and no two candles with the same timestamp, whatever order the rows came
\* in.
C15_SeriesStrictlyIncreasing ==
    SeriesReturned =>
        LET index == call.result.data.index IN
        \A i, j \in 1..Len(index) : i < j => index[i] < index[j]

\* The column names of a row as the fetcher compares them.
RowColumns(row) == {lower(c) : c \in DOMAIN row}

\* fetch_intraday_data has gone through a 2xx JSON response that carries no
\* error marker.
PayloadParsed ==
    /\ call.stage = "done"
    /\ call.op = "intraday"
    /\ KnownInstrument(call.instrument)
    /\ call.response.kind = "response"
    /\ call.response.status_code = HttpOk
    /\ call.response.json
    /\ ~ErrorMarked(call.response)

\* The payload has no candle collection or an empty one, or a spelled row
\* of it lacks one of open, high, low, close.
Incomplete(body) ==
    \/ "data" \notin body.keys
    \/ DataLen(body.data) = 0
    \/ \E k \in 1..Len(body.data.rows) :
          ~({"open", "high", "low", "close"} \subseteq RowColumns(body.data.rows[k]))

\* C16: a payload with no candle collection, an empty one, or a row that
\* lacks open, high, low or close yields a failure result, never a
\* (partial) series.
C16_IncompleteIsFailure ==
    PayloadParsed /\ Incomplete(call.response.body) => ~call.result.success

\* C17: a payload whose candles all carry open, high, low and close and
\* none a volume is accepted, and every candle of the series has volume 0.
C17_NoVolumeAccepted ==
    /\ PayloadParsed
    /\ ~Incomplete(call.response.body)
    /\ call.response.body.data.more = 0
    /\ \A k \in 1..Len(call.response.body.data.rows) :
          "volume" \notin RowColumns(call.response.body.data.rows[k])
    => /\ call.result.success
       /\ "volume" \in call.result.data.columns
       /\ "volume" \notin call.result.data.nan

-----------------------------------------------------------------------------
(* Properties of the cooldown map over time                                *)
(* (streamlit_app.py, lines 234-237, 283-305).                             *)

\* C19: cooldown entries are never removed one by one: the keys of the
\* cooldown map only grow, except that Clear empties the map and the log
\* together (the log never loses a signal otherwise), and with the map
\* empty the next candidate, of whatever key, is not suppressed.
C19_KeysOnlyGrowUntilClear ==
    [][\A s \in DOMAIN sent_signals :
          LET emptied == sent_signals'[s] = EmptyMap /\ signals'[s] = <<>> IN
          /\ DOMAIN sent_signals[s] \subseteq DOMAIN sent_signals'[s] \/ emptied
          /\ Len(signals'[s]) < Len(signals[s]) => emptied
          /\ sent_signals[s] = EmptyMap => ~SuppressedStep(s)]_vars

\* After a Clear the log holds a signal whose key was dispatched before the
\* Clear, less than a window ago.
C19_AcceptedAfterClear ==
    \E s \in DOMAIN signals : \E sent \in channel :
        /\ signal_cooldown[s] = CooldownMax
        /\ sent.id \notin Logged(s)
        /\ signals[s] # <<>>
        /\ Key(signals[s][1]) = Key(sent)

\* Two signals come from the same detector list (see InitList).
SameList(a, b) == (a.id - 1) \div MaxSignals = (b.id - 1) \div MaxSignals

\* C20 (as amended): within one session and with no Clear in between, a
\* signal whose key already has an accepted signal is accepted at least one
\* cooldown window (the one in force at the check) after that signal.
C20_AcceptedWindowApart ==
    [][\A s \in DOMAIN pc :
          pc[s] = "add" /\ pc'[s] = "send" =>
              LET key == Key(Head(cands[s])) IN
              key \in DOMAIN sent_signals[s] =>
                  sent_signals'[s][key] - sent_signals[s][key] >= signal_cooldown[s]]_vars

\* The log holds two signals of one key that come from different lists.
C20_SameKeyTwice ==
    \E s \in DOMAIN signals : \E i, j \in 1..Len(signals[s]) :
        /\ i < j
        /\ Key(signals[s][i]) = Key(signals[s][j])
        /\ ~SameList(signals[s][i], signals[s][j])

\* C20 (as stated): in particular, at most one signal per key is accepted
\* from a single detector result list.
C20_OnePerKeyPerList ==
    \A s \in DOMAIN signals : \A i, j \in 1..Len(signals[s]) :
        i < j /\ SameList(signals[s][i], signals[s][j])
            => Key(signals[s][i]) # Key(signals[s][j])

-----------------------------------------------------------------------------
(* Properties tying the log to the cooldown map                            *)
(* (streamlit_app.py, lines 84-90, 234-237, 297-299).                      *)

\* Every signal of every log has its key in the cooldown map of its session.
LoggedKeysInMap ==
    \A s \in DOMAIN signals : \A k \in 1..Len(signals[s]) :
        Key(signals[s][k]) \in DOMAIN sent_signals[s]

\* A step that inserts a signal stores the time of the insertion under its
\* key, and the time stored under a key that stays in the map never goes
\* back.
StoredTimeKept ==
    \A s \in DOMAIN signals :
        /\ Len(signals'[s]) > Len(signals[s])
              => LET key == Key(signals'[s][1]) IN
                 /\ key \in DOMAIN sent_signals'[s]
                 /\ sent_signals'[s][key] >= now
        /\ \A key \in DOMAIN sent_signals[s] \cap DOMAIN sent_signals'[s] :
              sent_signals'[s][key] >= sent_signals[s][key]

-----------------------------------------------------------------------------
(* Properties of the monitoring flag                                       *)
(* (streamlit_app.py, lines 89-90, 224-237, 272-311).                      *)

\* The script of the session hands a signal to send_telegram_signal.
SendIssued(s) == pc[s] = "send" /\ pc'[s] # "send"

\* With the flag of the session off, a step issues no fetch and no send.
OffIssuesNothing(s) ==
    ~monitoring[s] => ~FetchIssued(s) /\ ~SendIssued(s)

\* The flag changes in the handlers of Start and Stop only.
FlagOnlyByButtons(s) ==
    monitoring'[s] # monitoring[s] => StartMonitoring(s) \/ StopMonitoring(s)

\* The log and the cooldown map of the session stay as they are.
StoresKept(s) == signals'[s] = signals[s] /\ sent_signals'[s] = sent_signals[s]

\* C22 (as amended): monitoring is off initially and changes only through
\* Start and Stop; while it is off a run of the script issues no provider
\* fetch and sends no notification, and the log and the cooldown map stay
\* as they are unless the run is the one in which Clear empties both.
C22_OffRunsChangeNothingButClear ==
    /\ \A s \in MainSessions : ~monitoring[s]
    /\ [][\A s \in DOMAIN monitoring :
             /\ FlagOnlyByButtons(s)
             /\ OffIssuesNothing(s)
             /\ ~monitoring[s] => StoresKept(s) \/ ClearSignals(s)]_vars

\* Monitoring has been stopped with a signal in the log and the script has
\* run to its end.
C22_StoppedWithLog ==
    \E s \in DOMAIN monitoring :
        ~monitoring[s] /\ signals[s] # <<>> /\ pc[s] = "idle"

\* C22 (as stated): while the monitoring flag is off, a run of the script
\* leaves the signal log and the cooldown map unchanged.
C22_OffRunsKeepStores ==
    [][\A s \in DOMAIN monitoring : ~monitoring[s] => StoresKept(s)]_vars

====
